---- MODULE Spec2Model ----
(***************************************************************************)
(* Connect-4 engines: the Connect4 game object (connect4.py), the          *)
(* depth-limited minimax search with optional alpha-beta pruning           *)
(* (minimax.py) and the Monte Carlo tree search (mcts.py).                 *)
(*                                                                         *)
(* A Connect4 object is the record [rows, cols, board, current_player];    *)
(* board[r][c] is the cell in row r (0 = top) and column c, holding 0      *)
(* (empty), 1 or 2.                                                        *)
(***************************************************************************)
EXTENDS Integers, Sequences, FiniteSets, TLC

VARIABLES
    game,    \* the caller's Connect4 object
    pc,      \* control location of the operation in progress
    call,    \* arguments and configuration of the operation in progress
    ret,     \* value returned by the last completed operation
    stack,   \* pending undo_info / recursion frames, innermost last
    tree,    \* MCTS tree [nodes, objs]: nodes[1] is the root, objs the game objects
    sim,     \* locals of the MCTS iteration in progress
    hist     \* history: boards saved at apply time, calls made

vars == <<game, pc, call, ret, stack, tree, sim, hist>>

(***************************************************************************)
(* Heuristic weights, connect4.py lines 3-5.                               *)
(***************************************************************************)
THREE_IN_ROW == 100
TWO_IN_ROW == 10
CENTER_BONUS == 3

\* Python's None where a row or a column is expected (an integer that is no
\* index), and the two infinities of math.inf (beyond every score).
None == -999
PosInf == 1000000
NegInf == -1000000

Max(a, b) == IF a >= b THEN a ELSE b
Min(a, b) == IF a <= b THEN a ELSE b
Abs(a) == IF a >= 0 THEN a ELSE -a

\* range(lo, hi) of Python as a set.
Range(lo, hi) == lo .. (hi - 1)

(***************************************************************************)
(* Connect4.__init__                                                       *)
(***************************************************************************)
Connect4(rows, cols) ==
    [rows |-> rows, cols |-> cols,
     board |-> [r \in Range(0, rows) |-> [c \in Range(0, cols) |-> 0]],
     current_player |-> 1]

\* numpy indexing of board[r][c]: a negative index counts from the end.
Wrap(i, n) == IF i < 0 THEN i + n ELSE i
At(g, r, c) == g.board[Wrap(r, g.rows)][Wrap(c, g.cols)]

drop_piece(g, row, col) ==
    [g EXCEPT !.board[row][col] = g.current_player]

switch_player(g) == [g EXCEPT !.current_player = 3 - g.current_player]

\* is_valid_location testing the bottom cell of the column.
is_valid_location_bottom(g, col) == g.board[g.rows - 1][col] = 0

is_valid_location(g, col) == g.board[0][col] = 0

\* The loop runs r = rows-1 down to 0 and returns the first empty row.
\* get_next_open_row scanning from row 0 downwards: the first empty row.
get_next_open_row_top(g, col) ==
    LET open == {r \in Range(0, g.rows) : g.board[r][col] = 0}
    IN  IF open = {} THEN None
        ELSE CHOOSE r \in open : \A q \in open : r <= q

get_next_open_row(g, col) ==
    LET open == {r \in Range(0, g.rows) : g.board[r][col] = 0}
    IN  IF open = {} THEN None
        ELSE CHOOSE r \in open : \A q \in open : q <= r

\* all(board[r + i*dr][c + i*dc] == player for i in range(4))
AllFour(g, r, c, dr, dc, player) ==
    \A i \in Range(0, 4) : At(g, r + i * dr, c + i * dc) = player

(***************************************************************************)
(* Connect4.get_game_state: row-major scan, the first cell that starts a   *)
(* run of four decides; then the draw test on the top row.                 *)
(***************************************************************************)
\* StartsRun with the anti-diagonal test col > 3 for col >= 3.
StartsRunStrict(g, row, col) ==
    LET player == g.board[row][col]
    IN  /\ player # 0
        /\ \/ (col <= g.cols - 4 /\ AllFour(g, row, col, 0, 1, player))
           \/ (row <= g.rows - 4 /\ AllFour(g, row, col, 1, 0, player))
           \/ (row <= g.rows - 4 /\ col <= g.cols - 4
                 /\ AllFour(g, row, col, 1, 1, player))
           \/ (row <= g.rows - 4 /\ col > 3
                 /\ AllFour(g, row, col, 1, -1, player))

\* StartsRun without the vertical test.
StartsRunNoVertical(g, row, col) ==
    LET player == g.board[row][col]
    IN  /\ player # 0
        /\ \/ (col <= g.cols - 4 /\ AllFour(g, row, col, 0, 1, player))
           \/ (row <= g.rows - 4 /\ col <= g.cols - 4
                 /\ AllFour(g, row, col, 1, 1, player))
           \/ (row <= g.rows - 4 /\ col >= 3
                 /\ AllFour(g, row, col, 1, -1, player))

StartsRun(g, row, col) ==
    LET player == g.board[row][col]
    IN  /\ player # 0
        /\ \/ (col <= g.cols - 4 /\ AllFour(g, row, col, 0, 1, player))
           \/ (row <= g.rows - 4 /\ AllFour(g, row, col, 1, 0, player))
           \/ (row <= g.rows - 4 /\ col <= g.cols - 4
                 /\ AllFour(g, row, col, 1, 1, player))
           \/ (row <= g.rows - 4 /\ col >= 3
                 /\ AllFour(g, row, col, 1, -1, player))

\* get_game_state without the test of the top row: 0 when nobody has four.
get_game_state_no_draw(g) ==
    LET starts == {rc \in Range(0, g.rows) \X Range(0, g.cols) :
                       StartsRun(g, rc[1], rc[2])}
    IN  IF starts # {}
        THEN LET first == CHOOSE rc \in starts : \A q \in starts :
                              rc[1] * g.cols + rc[2] <= q[1] * g.cols + q[2]
             IN  g.board[first[1]][first[2]]
        ELSE 0

\* get_game_state reporting only a run of the player whose turn it is.
get_game_state_current(g) ==
    IF \E rc \in Range(0, g.rows) \X Range(0, g.cols) :
           StartsRun(g, rc[1], rc[2]) /\ g.board[rc[1]][rc[2]] = g.current_player
    THEN g.current_player
    ELSE IF \A col \in Range(0, g.cols) : g.board[0][col] # 0
         THEN 3
         ELSE 0

get_game_state(g) ==
    LET starts == {rc \in Range(0, g.rows) \X Range(0, g.cols) :
                       StartsRun(g, rc[1], rc[2])}
    IN  IF starts # {}
        THEN LET first == CHOOSE rc \in starts : \A q \in starts :
                              rc[1] * g.cols + rc[2] <= q[1] * g.cols + q[2]
             IN  g.board[first[1]][first[2]]
        ELSE IF \A col \in Range(0, g.cols) : g.board[0][col] # 0
             THEN 3
             ELSE 0

(***************************************************************************)
(* Connect4.is_winning_move: the four scans through (row, col), each a     *)
(* loop over window start cells.  zip() pairs the row range with the       *)
(* column range index by index and stops at the shorter one.               *)
(***************************************************************************)
ZipLen(rlo, rhi, n) == Min(Max(0, rhi - rlo), Max(0, n))

is_winning_move(g, row, col) ==
    LET p   == g.current_player
        clo == Max(0, col - 3)
        chi == Min(g.cols - 3, col + 1)
        rlo == Max(0, row - 3)
        rhi == Min(g.rows - 3, row + 1)
        cstart == Min(g.cols - 1, col + 3)
        cstop  == Max(-1, col - 4)
    IN  \/ \E c \in Range(clo, chi) : AllFour(g, row, c, 0, 1, p)
        \/ \E r \in Range(rlo, rhi) : AllFour(g, r, col, 1, 0, p)
        \/ \E k \in Range(0, ZipLen(rlo, rhi, chi - clo)) :
               AllFour(g, rlo + k, clo + k, 1, 1, p)
        \/ \E k \in Range(0, ZipLen(rlo, rhi, cstart - cstop)) :
               AllFour(g, rlo + k, cstart - k, 1, -1, p)

(***************************************************************************)
(* Connect4.evaluate_window and Connect4.evaluate_position.  A window is   *)
(* <<row, col, dr, dc>>: the four cells (row + i*dr, col + i*dc).          *)
(***************************************************************************)
Count(g, w, v) ==
    Cardinality({i \in Range(0, 4) : At(g, w[1] + i * w[3], w[2] + i * w[4]) = v})

evaluate_window(g, w, player) ==
    LET opponent       == 3 - player
        player_count   == Count(g, w, player)
        opponent_count == Count(g, w, opponent)
        empty_count    == Count(g, w, 0)
    IN  (IF player_count = 3 /\ empty_count = 1 THEN THREE_IN_ROW
         ELSE IF player_count = 2 /\ empty_count = 2 THEN TWO_IN_ROW
         ELSE 0)
      - (IF opponent_count = 3 /\ empty_count = 1 THEN THREE_IN_ROW
         ELSE IF opponent_count = 2 /\ empty_count = 2 THEN TWO_IN_ROW
         ELSE 0)

\* The windows the four loops of evaluate_position visit, lines 99-114.
ScannedWindows(g) ==
    {<<row, col, 0, 1>> : row \in Range(0, g.rows - 3), col \in Range(0, g.cols - 3)}
    \cup {<<row, col, 1, 0>> : row \in Range(0, g.rows - 3), col \in Range(0, g.cols)}
    \cup {<<row, col, 1, 1>> : row \in Range(0, g.rows - 3), col \in Range(0, g.cols - 3)}
    \cup {<<row, col, -1, 1>> : row \in Range(3, g.rows), col \in Range(0, g.cols - 3)}

RECURSIVE SumWindows(_, _, _)
SumWindows(g, W, player) ==
    IF W = {} THEN 0
    ELSE LET w == CHOOSE x \in W : TRUE
         IN  evaluate_window(g, w, player) + SumWindows(g, W \ {w}, player)

RECURSIVE SumBonus(_, _, _)
SumBonus(g, cells, player) ==
    IF cells = {} THEN 0
    ELSE LET rc == CHOOSE x \in cells : TRUE
         IN  Max(0, CENTER_BONUS - Abs(rc[2] - (g.cols \div 2)))
               + SumBonus(g, cells \ {rc}, player)

center_bonus(g, player) ==
    SumBonus(g, {rc \in Range(0, g.rows) \X Range(0, g.cols) :
                     g.board[rc[1]][rc[2]] = player}, player)

evaluate_position(g, player) ==
    LET game_state == get_game_state(g)
    IN  IF game_state = player THEN 1000
        ELSE IF game_state = 3 - player THEN -1000
        ELSE IF game_state = 3 THEN 0
        ELSE SumWindows(g, ScannedWindows(g), player) + center_bonus(g, player)

(***************************************************************************)
(* Connect4.get_valid_moves: the list comprehension over range(cols), so   *)
(* the columns come in ascending order.                                    *)
(***************************************************************************)
RECURSIVE ValidFrom(_, _)
ValidFrom(g, col) ==
    IF col >= g.cols THEN <<>>
    ELSE (IF is_valid_location(g, col) THEN <<col>> ELSE <<>>)
           \o ValidFrom(g, col + 1)

get_valid_moves(g) == ValidFrom(g, 0)

SeqToSet(s) == {s[i] : i \in DOMAIN s}

\* Connect4.copy_game: a new object with a copy of the board.
copy_game(g) ==
    [rows |-> g.rows, cols |-> g.cols,
     board |-> [r \in Range(0, g.rows) |-> [c \in Range(0, g.cols) |-> g.board[r][c]]],
     current_player |-> g.current_player]

(***************************************************************************)
(* Connect4.simulate_move / undo_move.  On a column with no empty cell     *)
(* get_next_open_row returns None and board[None][col] indexes a view of   *)
(* shape (1, rows, cols): col = 0 assigns the whole board, any other col   *)
(* raises IndexError.                                                      *)
(***************************************************************************)
WholeBoard(g, v) ==
    [g EXCEPT !.board = [r \in Range(0, g.rows) |-> [c \in Range(0, g.cols) |-> v]]]

SetCell(g, row, col, v) ==
    IF row = None
    THEN WholeBoard(g, v)
    ELSE [g EXCEPT !.board[row][col] = v]

SetCellRaises(g, row, col) == row = None /\ col # 0

\* simulate_move writing self.current_player, as drop_piece does.
simulate_move_current(g, col, player) ==
    SetCell(g, get_next_open_row(g, col), col, g.current_player)

simulate_move(g, col, player) == SetCell(g, get_next_open_row(g, col), col, player)

undo_info(g, col) == <<get_next_open_row(g, col), col>>

\* undo_move reading undo_info as (col, row).
undo_move_swapped(g, info) == SetCell(g, info[2], info[1], 0)

undo_move(g, info) == SetCell(g, info[1], info[2], 0)

(***************************************************************************)
(* Values shared by the specifications below.                              *)
(***************************************************************************)
Players == {1, 2}

Cells(g) == Range(0, g.rows) \X Range(0, g.cols)

TokenCount(g) == Cardinality({rc \in Cells(g) : g.board[rc[1]][rc[2]] # 0})

Idle == [op |-> "none"]

Last(s) == s[Len(s)]
Front(s) == SubSeq(s, 1, Len(s) - 1)

(***************************************************************************)
(* SpecBoard: a caller that writes cells directly.  drop_piece(row, col)   *)
(* takes any cell of the board and switch_player flips the mover.  The     *)
(* caller fills empty cells in row-major order, which reaches every board  *)
(* with at most MaxTokens tokens, each along one path.                     *)
(***************************************************************************)
BoardDims == {<<4, 4>>}
MaxTokens == 4

CellIndex(g, row, col) == row * g.cols + col

AfterAllTokens(g, row, col) ==
    \A rc \in Cells(g) :
        g.board[rc[1]][rc[2]] # 0 => CellIndex(g, rc[1], rc[2]) < CellIndex(g, row, col)

InitBoard ==
    /\ \E d \in BoardDims : game = Connect4(d[1], d[2])
    /\ pc = "board"
    /\ call = Idle
    /\ ret = Idle
    /\ stack = <<>>
    /\ tree = <<>>
    /\ sim = Idle
    /\ hist = <<>>

DropPiece(row, col) ==
    /\ pc = "board"
    /\ TokenCount(game) < MaxTokens
    /\ AfterAllTokens(game, row, col)
    /\ game' = drop_piece(game, row, col)
    /\ UNCHANGED <<pc, call, ret, stack, tree, sim, hist>>

SwitchPlayer ==
    /\ pc = "board"
    /\ game' = switch_player(game)
    /\ UNCHANGED <<pc, call, ret, stack, tree, sim, hist>>

NextBoard ==
    \/ \E rc \in Cells(game) : DropPiece(rc[1], rc[2])
    \/ SwitchPlayer

SpecBoard == InitBoard /\ [][NextBoard]_vars

(***************************************************************************)
(* Reference definitions of the game result, from the rules: a window is   *)
(* four cells in a line inside the board.                                  *)
(***************************************************************************)
Directions == {<<0, 1>>, <<1, 0>>, <<1, 1>>, <<1, -1>>}

InBoard(g, r, c) == r \in Range(0, g.rows) /\ c \in Range(0, g.cols)

AllWindows(g) ==
    {w \in Cells(g) \X Directions :
        InBoard(g, w[1][1] + 3 * w[2][1], w[1][2] + 3 * w[2][2])}

WindowCells(w) == {<<w[1][1] + i * w[2][1], w[1][2] + i * w[2][2]>> : i \in Range(0, 4)}

HasFour(g, p) ==
    \E w \in AllWindows(g) : \A rc \in WindowCells(w) : g.board[rc[1]][rc[2]] = p

TopRowFull(g) == \A c \in Range(0, g.cols) : g.board[0][c] # 0

\* C7: on a board where at most one player has four in a row, get_game_state
\* returns p exactly when p has four in a row, 3 exactly when nobody has and
\* the top row is full, and 0 otherwise.
C7_GameStateMatchesRules ==
    LET state == get_game_state(game)
        four1 == HasFour(game, 1)
        four2 == HasFour(game, 2)
        full  == TopRowFull(game)
    IN  ~(four1 /\ four2) =>
            /\ (state = 1) <=> four1
            /\ (state = 2) <=> four2
            /\ (state = 3) <=> (~four1 /\ ~four2 /\ full)
            /\ (state = 0) <=> (~four1 /\ ~four2 /\ ~full)

\* Player 2 has four on the anti-diagonal from the top right corner, player 1
\* has no token, and get_game_state returns 2.
C7_Witness ==
    /\ \A i \in Range(0, 4) : game.board[i][game.cols - 1 - i] = 2
    /\ TokenCount(game) = 4
    /\ get_game_state(game) = 2

(***************************************************************************)
(* Reference value of the heuristic: every window of the board in all four *)
(* directions, plus the centre bonus of the player's own tokens.           *)
(***************************************************************************)
RECURSIVE SumAllWindows(_, _, _)
SumAllWindows(g, W, player) ==
    IF W = {} THEN 0
    ELSE LET w == CHOOSE x \in W : TRUE
         IN  evaluate_window(g, <<w[1][1], w[1][2], w[2][1], w[2][2]>>, player)
               + SumAllWindows(g, W \ {w}, player)

RECURSIVE SumOwnTokens(_, _)
SumOwnTokens(g, cells) ==
    IF cells = {} THEN 0
    ELSE LET rc == CHOOSE x \in cells : TRUE
         IN  Max(0, 3 - Abs(rc[2] - (g.cols \div 2))) + SumOwnTokens(g, cells \ {rc})

ReferenceValue(g, player) ==
    SumAllWindows(g, AllWindows(g), player)
      + SumOwnTokens(g, {rc \in Cells(g) : g.board[rc[1]][rc[2]] = player})

\* C9: on a non-terminal board evaluate_position(player) equals the sum over
\* every window of the board in all four directions of the window score, plus
\* the centre bonus of the player's own tokens.
C9_EvaluateMatchesReference ==
    get_game_state(game) = 0 =>
        \A p \in Players : evaluate_position(game, p) = ReferenceValue(game, p)

(***************************************************************************)
(* SpecMoves: a caller of simulate_move / undo_move.  A move whose         *)
(* returned undo_info the caller keeps is pending (stack holds the infos,  *)
(* hist the boards before each); the caller undoes the pending moves in    *)
(* reverse order of application.  A move whose undo_info is dropped stays. *)
(* SpecMoves starts from the empty board, SpecMovesAny from any board with *)
(* at most MaxLoose tokens written anywhere.                               *)
(***************************************************************************)
MovesDims == {<<4, 4>>}
MaxMoveTokens == 3
MaxPending == 2
MaxLoose == 1

RECURSIVE LooseBoards(_, _)
LooseBoards(g, n) ==
    IF n = 0 THEN {g}
    ELSE LET smaller == LooseBoards(g, n - 1)
         IN  smaller \cup
             {[b EXCEPT !.board[rc[1]][rc[2]] = p] :
                  b \in smaller, rc \in Cells(g), p \in Players}

InitMovesFrom(start) ==
    /\ game \in start
    /\ pc = "moves"
    /\ call = Idle
    /\ ret = Idle
    /\ stack = <<>>
    /\ tree = <<>>
    /\ sim = Idle
    /\ hist = <<>>

InitMoves == InitMovesFrom({Connect4(d[1], d[2]) : d \in MovesDims})

InitMovesAny ==
    InitMovesFrom(UNION {LooseBoards(Connect4(d[1], d[2]), MaxLoose) : d \in MovesDims})

SimulateMove(col, player, keep) ==
    /\ pc = "moves"
    /\ get_next_open_row(game, col) # None
    /\ TokenCount(game) < MaxMoveTokens
    /\ IF keep THEN Len(stack) < MaxPending ELSE stack = <<>>
    /\ game' = simulate_move(game, col, player)
    /\ ret' = [op |-> "simulate_move", info |-> undo_info(game, col)]
    /\ call' = [op |-> "simulate_move", col |-> col, player |-> player]
    /\ stack' = IF keep THEN Append(stack, undo_info(game, col)) ELSE stack
    /\ hist' = IF keep THEN Append(hist, game.board) ELSE hist
    /\ UNCHANGED <<pc, tree, sim>>

UndoMove ==
    /\ pc = "moves"
    /\ stack # <<>>
    /\ game' = undo_move(game, Last(stack))
    /\ ret' = [op |-> "undo_move"]
    /\ call' = [op |-> "undo_move", info |-> Last(stack)]
    /\ stack' = Front(stack)
    /\ hist' = Front(hist)
    /\ UNCHANGED <<pc, tree, sim>>

NextMoves ==
    \/ \E col \in Range(0, game.cols), player \in Players, keep \in BOOLEAN :
           SimulateMove(col, player, keep)
    \/ UndoMove

SpecMoves == InitMoves /\ [][NextMoves]_vars

SpecMovesAny == InitMovesAny /\ [][NextMoves]_vars

\* C4: undo_move applied to the undo_info of the latest pending simulate_move
\* restores every cell to its value before that simulate_move, so pending
\* moves undone in reverse order restore the original board.
C4_UndoRestoresBoard ==
    [][Len(stack') < Len(stack) => game'.board = Last(hist)]_vars

\* The board began with a token hanging in row 2 of a column; two moves were
\* applied to that column, landing below and above that token, and the later
\* one has been undone while the earlier one is still pending.
C4_Witness ==
    /\ Len(stack) = 1
    /\ ret.op = "undo_move"
    /\ \E c \in Range(0, game.cols) :
           /\ stack[1] = <<3, c>>
           /\ game.board[3][c] # 0 /\ game.board[2][c] # 0 /\ game.board[1][c] = 0

(***************************************************************************)
(* SpecPlay: the game loop of test_mcts_vs_random (test_mcts_integration,  *)
(* lines 129-138).  While get_game_state() is 0 and a legal move exists    *)
(* the mover's engine proposes a column (any legal column here), the loop  *)
(* applies it with simulate_move and flips its local current_player,       *)
(* which call.current_player holds.  The board is small enough for every   *)
(* game to be played to its end.                                           *)
(***************************************************************************)
PlayDims == {<<4, 4>>}

InitPlay ==
    /\ \E d \in PlayDims : game = Connect4(d[1], d[2])
    /\ pc = "play"
    /\ call = [op |-> "play", current_player |-> 1]
    /\ ret = Idle
    /\ stack = <<>>
    /\ tree = <<>>
    /\ sim = Idle
    /\ hist = <<>>

PlayTurn(move) ==
    /\ pc = "play"
    /\ get_game_state(game) = 0
    /\ Len(get_valid_moves(game)) > 0
    /\ move \in SeqToSet(get_valid_moves(game))
    /\ game' = simulate_move(game, move, call.current_player)
    /\ call' = [call EXCEPT !.current_player = 3 - call.current_player]
    /\ UNCHANGED <<pc, ret, stack, tree, sim, hist>>

NextPlay == \E move \in Range(0, game.cols) : PlayTurn(move)

SpecPlay == InitPlay /\ [][NextPlay]_vars

\* C10: in legal alternating play get_game_state is 0, 1, 2 or 3 and the two
\* players never both have four in a row.
C10_OneWinnerAtMost ==
    /\ get_game_state(game) \in {0, 1, 2, 3}
    /\ ~(HasFour(game, 1) /\ HasFour(game, 2))

\* A finished game: player 2 has four in a row and player 1 has not, although
\* player 1 has three in a row with the fourth cell still empty.
C10_Witness ==
    /\ get_game_state(game) = 2
    /\ HasFour(game, 2)
    /\ \E w \in AllWindows(game) :
           Cardinality({rc \in WindowCells(w) : game.board[rc[1]][rc[2]] = 1}) = 3
           /\ Cardinality({rc \in WindowCells(w) : game.board[rc[1]][rc[2]] = 0}) = 1

(***************************************************************************)
(* SpecBench: the game loop of benchmark.py (run_benchmark, lines 49-86).  *)
(* While get_game_state() is 0 and a legal move exists the mover's engine  *)
(* proposes a column (any legal column here), the loop drops the token,    *)
(* asks is_winning_move and either stops or switches the player.           *)
(***************************************************************************)
BenchDims == {<<5, 4>>}
MaxPlies == 10

InitBench ==
    /\ \E d \in BenchDims : game = Connect4(d[1], d[2])
    /\ pc = "bench"
    /\ call = Idle
    /\ ret = Idle
    /\ stack = <<>>
    /\ tree = <<>>
    /\ sim = Idle
    /\ hist = <<>>

BenchMove(move) ==
    /\ pc = "bench"
    /\ TokenCount(game) < MaxPlies
    /\ get_game_state(game) = 0
    /\ Len(get_valid_moves(game)) > 0
    /\ is_valid_location(game, move)
    /\ LET row     == get_next_open_row(game, move)
           dropped == drop_piece(game, row, move)
           won     == is_winning_move(dropped, row, move)
       IN  /\ game' = IF won THEN dropped ELSE switch_player(dropped)
           /\ pc' = IF won THEN "over" ELSE "bench"
           /\ ret' = [op |-> "move", row |-> row, col |-> move,
                      mover |-> game.current_player, won |-> won]
    /\ UNCHANGED <<call, stack, tree, sim, hist>>

NextBench == \E move \in Range(0, game.cols) : BenchMove(move)

SpecBench == InitBench /\ [][NextBench]_vars

\* A run of four of player p through the cell (row, col).
FourThrough(g, row, col, p) ==
    \E w \in AllWindows(g) :
        /\ <<row, col>> \in WindowCells(w)
        /\ \A rc \in WindowCells(w) : g.board[rc[1]][rc[2]] = p

\* C8: after a legal move, is_winning_move(row, col) for the cell just filled
\* is True exactly when that cell lies on a run of four of the mover, which is
\* exactly when get_game_state() is the mover.
C8_WinningMoveMatchesState ==
    ret.op = "move" =>
        /\ ret.won <=> FourThrough(game, ret.row, ret.col, ret.mover)
        /\ ret.won <=> (get_game_state(game) = ret.mover)

(***************************************************************************)
(* MinimaxPlayer (minimax.py).  The search works on the caller's board in  *)
(* place, so each operator takes and returns the search environment env:   *)
(* env.game is the Connect4 object as the code has left it so far.  The    *)
(* other fields are history: env.pending holds the undo_info of the moves  *)
(* applied and not yet undone, env.nested is FALSE once an undo_move did   *)
(* not undo the latest pending move, env.deepest is the greatest number of *)
(* moves that were pending at once, env.applied counts the simulate_move   *)
(* calls.  A result is [score, col, env].                                  *)
(***************************************************************************)
Env(g) == [game |-> g, pending |-> <<>>, nested |-> TRUE, deepest |-> 0, applied |-> 0]

Apply(env, col, mover) ==
    [game    |-> simulate_move(env.game, col, mover),
     pending |-> Append(env.pending, undo_info(env.game, col)),
     nested  |-> env.nested,
     deepest |-> Max(env.deepest, Len(env.pending) + 1),
     applied |-> env.applied + 1]

Undo(env, info) ==
    [game    |-> undo_move(env.game, info),
     pending |-> IF env.pending = <<>> THEN <<>> ELSE Front(env.pending),
     nested  |-> env.nested /\ env.pending # <<>> /\ Last(env.pending) = info,
     deepest |-> env.deepest,
     applied |-> env.applied]

Result(score, col, env) == [score |-> score, col |-> col, env |-> env]

\* Python evaluates a statement before the next one starts: Evaluated(v) makes
\* the value of v be computed where it stands.
Evaluated(v) == v = v

RECURSIVE minimax_basic(_, _, _, _)
RECURSIVE BasicLoop(_, _, _, _, _, _, _, _)

\* BasicLoop replacing the best column on an equal score: >= and <=.
BasicLoopKeepLast(env, depth, maximizing_player, player, valid_moves, i, best_score, best_col) ==
    IF i > Len(valid_moves)
    THEN Result(best_score, best_col, env)
    ELSE LET col     == valid_moves[i]
             mover   == IF maximizing_player THEN player ELSE 3 - player
             info    == undo_info(env.game, col)
             sub     == minimax_basic(Apply(env, col, mover), depth - 1,
                                      ~maximizing_player, player)
             undone  == Undo(sub.env, info)
             better  == IF maximizing_player
                        THEN sub.score >= best_score
                        ELSE sub.score <= best_score
             score1  == IF better THEN sub.score ELSE best_score
             col1    == IF better THEN col ELSE best_col
         IN  CASE Evaluated(undone) /\ Evaluated(score1) /\ Evaluated(col1) ->
                 BasicLoop(undone, depth, maximizing_player, player, valid_moves, i + 1,
                           score1, col1)

\* The for loop over valid_moves of either branch, at its i-th column.
BasicLoop(env, depth, maximizing_player, player, valid_moves, i, best_score, best_col) ==
    IF i > Len(valid_moves)
    THEN Result(best_score, best_col, env)
    ELSE LET col     == valid_moves[i]
             mover   == IF maximizing_player THEN player ELSE 3 - player
             info    == undo_info(env.game, col)
             sub     == minimax_basic(Apply(env, col, mover), depth - 1,
                                      ~maximizing_player, player)
             undone  == Undo(sub.env, info)
             better  == IF maximizing_player
                        THEN sub.score > best_score
                        ELSE sub.score < best_score
             score1  == IF better THEN sub.score ELSE best_score
             col1    == IF better THEN col ELSE best_col
         IN  CASE Evaluated(undone) /\ Evaluated(score1) /\ Evaluated(col1) ->
                 BasicLoop(undone, depth, maximizing_player, player, valid_moves, i + 1,
                           score1, col1)

minimax_basic(env, depth, maximizing_player, player) ==
    IF depth = 0 \/ get_game_state(env.game) # 0
    THEN Result(evaluate_position(env.game, player), None, env)
    ELSE LET valid_moves == get_valid_moves(env.game)
         IN  IF valid_moves = <<>>
             THEN Result(evaluate_position(env.game, player), None, env)
             ELSE BasicLoop(env, depth, maximizing_player, player, valid_moves, 1,
                            IF maximizing_player THEN NegInf ELSE PosInf,
                            valid_moves[1])

RECURSIVE minimax_ab(_, _, _, _, _, _)
RECURSIVE AbLoop(_, _, _, _, _, _, _, _, _, _)

\* AbLoop with the break taken before undo_move.
AbLoopBreakFirst(env, depth, alpha, beta, maximizing_player, player, valid_moves, i, best_score, best_col) ==
    IF i > Len(valid_moves)
    THEN Result(best_score, best_col, env)
    ELSE LET col     == valid_moves[i]
             mover   == IF maximizing_player THEN player ELSE 3 - player
             info    == undo_info(env.game, col)
             sub     == minimax_ab(Apply(env, col, mover), depth - 1, alpha, beta,
                                   ~maximizing_player, player)
             undone  == Undo(sub.env, info)
             better  == IF maximizing_player
                        THEN sub.score > best_score
                        ELSE sub.score < best_score
             score1  == IF better THEN sub.score ELSE best_score
             col1    == IF better THEN col ELSE best_col
             alpha1  == IF maximizing_player THEN Max(alpha, score1) ELSE alpha
             beta1   == IF maximizing_player THEN beta ELSE Min(beta, score1)
         IN  CASE Evaluated(undone) /\ Evaluated(score1) /\ Evaluated(col1) ->
                 IF beta1 <= alpha1
                 THEN Result(score1, col1, sub.env)
                 ELSE AbLoop(undone, depth, alpha1, beta1, maximizing_player, player,
                             valid_moves, i + 1, score1, col1)

\* AbLoop with the comparison of the break reversed: alpha <= beta.
AbLoopCutReversed(env, depth, alpha, beta, maximizing_player, player, valid_moves, i, best_score, best_col) ==
    IF i > Len(valid_moves)
    THEN Result(best_score, best_col, env)
    ELSE LET col     == valid_moves[i]
             mover   == IF maximizing_player THEN player ELSE 3 - player
             info    == undo_info(env.game, col)
             sub     == minimax_ab(Apply(env, col, mover), depth - 1, alpha, beta,
                                   ~maximizing_player, player)
             undone  == Undo(sub.env, info)
             better  == IF maximizing_player
                        THEN sub.score > best_score
                        ELSE sub.score < best_score
             score1  == IF better THEN sub.score ELSE best_score
             col1    == IF better THEN col ELSE best_col
             alpha1  == IF maximizing_player THEN Max(alpha, score1) ELSE alpha
             beta1   == IF maximizing_player THEN beta ELSE Min(beta, score1)
         IN  CASE Evaluated(undone) /\ Evaluated(score1) /\ Evaluated(col1) ->
                 IF alpha1 <= beta1
                 THEN Result(score1, col1, undone)
                 ELSE AbLoop(undone, depth, alpha1, beta1, maximizing_player, player,
                             valid_moves, i + 1, score1, col1)

\* The for loop of either branch at its i-th column, with the break.
AbLoop(env, depth, alpha, beta, maximizing_player, player, valid_moves, i, best_score, best_col) ==
    IF i > Len(valid_moves)
    THEN Result(best_score, best_col, env)
    ELSE LET col     == valid_moves[i]
             mover   == IF maximizing_player THEN player ELSE 3 - player
             info    == undo_info(env.game, col)
             sub     == minimax_ab(Apply(env, col, mover), depth - 1, alpha, beta,
                                   ~maximizing_player, player)
             undone  == Undo(sub.env, info)
             better  == IF maximizing_player
                        THEN sub.score > best_score
                        ELSE sub.score < best_score
             score1  == IF better THEN sub.score ELSE best_score
             col1    == IF better THEN col ELSE best_col
             alpha1  == IF maximizing_player THEN Max(alpha, score1) ELSE alpha
             beta1   == IF maximizing_player THEN beta ELSE Min(beta, score1)
         IN  CASE Evaluated(undone) /\ Evaluated(score1) /\ Evaluated(col1) ->
                 IF beta1 <= alpha1
                 THEN Result(score1, col1, undone)
                 ELSE AbLoop(undone, depth, alpha1, beta1, maximizing_player, player,
                             valid_moves, i + 1, score1, col1)

minimax_ab(env, depth, alpha, beta, maximizing_player, player) ==
    IF depth = 0 \/ get_game_state(env.game) # 0
    THEN Result(evaluate_position(env.game, player), None, env)
    ELSE LET valid_moves == get_valid_moves(env.game)
         IN  IF valid_moves = <<>>
             THEN Result(evaluate_position(env.game, player), None, env)
             ELSE AbLoop(env, depth, alpha, beta, maximizing_player, player,
                         valid_moves, 1,
                         IF maximizing_player THEN NegInf ELSE PosInf,
                         valid_moves[1])

\* get_best_move returning element [0] of the root's pair, the score.
get_best_move_score(self, g, player) ==
    LET res == IF self.use_alpha_beta
               THEN minimax_ab(Env(g), self.depth, NegInf, PosInf, TRUE, player)
               ELSE minimax_basic(Env(g), self.depth, TRUE, player)
    IN  Result(res.score, res.score, res.env)

\* MinimaxPlayer.get_best_move on the player [depth, use_alpha_beta].
get_best_move(self, g, player) ==
    IF self.use_alpha_beta
    THEN minimax_ab(Env(g), self.depth, NegInf, PosInf, TRUE, player)
    ELSE minimax_basic(Env(g), self.depth, TRUE, player)

(***************************************************************************)
(* SpecMinimax: a caller sets up a position with simulate_move for either  *)
(* player, then asks a MinimaxPlayer for a move.  hist keeps the game      *)
(* object as it was at the call.                                           *)
(***************************************************************************)
MinimaxDims == {<<4, 4>>}
MaxSetup == 4
MaxDepth == 2

InitSetup(dims) ==
    /\ \E d \in dims : game = Connect4(d[1], d[2])
    /\ pc = "setup"
    /\ call = Idle
    /\ ret = Idle
    /\ stack = <<>>
    /\ tree = <<>>
    /\ sim = Idle
    /\ hist = <<>>

SetupMove(col, player, most) ==
    /\ pc = "setup"
    /\ TokenCount(game) < most
    /\ is_valid_location(game, col)
    /\ game' = simulate_move(game, col, player)
    /\ UNCHANGED <<pc, call, ret, stack, tree, sim, hist>>

GetBestMove(depth, use_alpha_beta, player) ==
    /\ pc = "setup"
    /\ \E res \in {get_best_move([depth |-> depth, use_alpha_beta |-> use_alpha_beta],
                                  game, player)} :
           /\ call' = [op |-> "get_best_move", depth |-> depth,
                       use_alpha_beta |-> use_alpha_beta, player |-> player]
           /\ ret' = [op |-> "get_best_move", value |-> res.col, score |-> res.score,
                      pending |-> res.env.pending, nested |-> res.env.nested,
                      deepest |-> res.env.deepest, applied |-> res.env.applied]
           /\ game' = res.env.game
    /\ hist' = <<game>>
    /\ pc' = "done"
    /\ UNCHANGED <<stack, tree, sim>>

InitMinimax == InitSetup(MinimaxDims)

NextMinimax ==
    \/ \E col \in Range(0, game.cols), player \in Players :
           SetupMove(col, player, MaxSetup)
    \/ \E depth \in 0 .. MaxDepth, use_alpha_beta \in BOOLEAN, player \in Players :
           GetBestMove(depth, use_alpha_beta, player)

SpecMinimax == InitMinimax /\ [][NextMinimax]_vars

(***************************************************************************)
(* SpecScenario: the set-up of test_mcts_winning_positions                 *)
(* (test_mcts_integration, lines 89-93): the caller places player 1 tokens *)
(* with simulate_move(col, 1), then asks a MinimaxPlayer for a move.       *)
(***************************************************************************)
ScenarioDims == {<<4, 6>>}
ScenarioTokens == 3
ScenarioDepth == 3

InitScenario == InitSetup(ScenarioDims)

NextScenario ==
    \/ \E col \in Range(0, game.cols) : SetupMove(col, 1, ScenarioTokens)
    \/ \E depth \in 0 .. ScenarioDepth, use_alpha_beta \in BOOLEAN, player \in Players :
           GetBestMove(depth, use_alpha_beta, player)

SpecScenario == InitScenario /\ [][NextScenario]_vars

\* The game object the engine was called on.
Asked == hist[1]

ValidAtCall(col) ==
    col \in Range(0, Asked.cols) /\ col \in SeqToSet(get_valid_moves(Asked))

\* The column wins at once: played by the mover it makes four in a row.
WinsAtOnce(g, col, player) ==
    /\ col \in SeqToSet(get_valid_moves(g))
    /\ get_game_state(simulate_move(g, col, player)) = player

\* C1 as stated: on a non-terminal state get_best_move returns a member of
\* get_valid_moves() of the state at call time, never None, for either pruning
\* setting and any configured depth.
C1_MoveIsValidAnyDepth ==
    (ret.op = "get_best_move" /\ get_game_state(Asked) = 0) => ValidAtCall(ret.value)

\* C1 amended: on a non-terminal state get_best_move returns a member of
\* get_valid_moves() of the state at call time, never None, for either pruning
\* setting and any configured depth >= 1; at depth 0 it returns None.
C1_MoveIsValid ==
    (ret.op = "get_best_move" /\ get_game_state(Asked) = 0) =>
        IF call.depth >= 1 THEN ValidAtCall(ret.value) ELSE ret.value = None

\* A search two plies deep on a position whose column 0 is full: the move
\* returned is another column.
C1_Witness ==
    /\ ret.op = "get_best_move"
    /\ call.depth = 2
    /\ get_game_state(Asked) = 0
    /\ ~is_valid_location(Asked, 0)
    /\ ValidAtCall(ret.value)

\* C3: when some column wins at once for the mover, get_best_move at any
\* depth >= 1, with or without alpha-beta, returns a column that wins at once.
C3_TakesImmediateWin ==
    (/\ ret.op = "get_best_move"
     /\ call.depth >= 1
     /\ get_game_state(Asked) = 0
     /\ \E col \in Range(0, Asked.cols) : WinsAtOnce(Asked, col, call.player))
        => WinsAtOnce(Asked, ret.value, call.player)

\* C5: when get_best_move returns, the caller's board and current_player are
\* what they were before the call, every undo_move undid the latest move still
\* applied, no move is left applied, and never more moves were applied at once
\* than the search is deep (a move is undone before its next sibling is tried).
C5_SearchRestoresGame ==
    ret.op = "get_best_move" =>
        /\ game = Asked
        /\ ret.nested
        /\ ret.pending = <<>>
        /\ ret.deepest <= call.depth

\* An alpha-beta search two plies deep that applied fewer moves than the full
\* tree has, so a column loop was left early, on a board with tokens on it.
C5_Witness ==
    /\ ret.op = "get_best_move"
    /\ call.use_alpha_beta
    /\ call.depth = 2
    /\ ret.deepest = 2
    /\ TokenCount(Asked) = 4
    /\ Len(get_valid_moves(Asked)) = 4
    /\ ret.applied < 4 + 4 * 4
    /\ game = Asked

(***************************************************************************)
(* Monte-Carlo tree search (mcts.py).  Game objects live in a memory       *)
(* [caller, objs]: reference 0 is the caller's Connect4 object, reference  *)
(* i >= 1 is objs[i].  A Node holds the reference of its game_state, so    *)
(* that two nodes sharing one object is a state the model can tell from    *)
(* two nodes owning equal copies.  An object no node refers to when a      *)
(* method returns is garbage and its slot is free again.                   *)
(***************************************************************************)
Freed == Connect4(0, 0)

Memory(g, objs) == [caller |-> g, objs |-> objs]

Deref(m, ref) == IF ref = 0 THEN m.caller ELSE m.objs[ref]

Assign(m, ref, g) ==
    IF ref = 0 THEN [m EXCEPT !.caller = g] ELSE [m EXCEPT !.objs[ref] = g]

\* A new object: the lowest free slot, or one more slot.
Allocate(m, g) ==
    LET free == {i \in DOMAIN m.objs : m.objs[i] = Freed}
        ref  == IF free = {} THEN Len(m.objs) + 1
                ELSE CHOOSE i \in free : \A j \in free : i <= j
    IN  [mem |-> IF free = {} THEN [m EXCEPT !.objs = Append(@, g)]
                 ELSE [m EXCEPT !.objs[ref] = g],
         ref |-> ref]

\* copy_game handing back the object itself, board shared.
CopyGameShared(m, ref) == [mem |-> m, ref |-> ref]

\* game.copy_game() on the object ref: a new object with a copy of the board.
CopyGame(m, ref) == Allocate(m, copy_game(Deref(m, ref)))

\* The objects no node of the tree refers to are dropped.
Collect(m, nodes) ==
    LET live == {nodes[n].game_state : n \in DOMAIN nodes}
        kept == [i \in DOMAIN m.objs |-> IF i \in live THEN m.objs[i] ELSE Freed]
    IN  [m EXCEPT !.objs = kept]

\* Node.__init__: the node's record and the memory with its own copy of the
\* game object.  wins counts in halves (a draw adds one half).
Node(m, game_ref, move, parent, player_who_moved) ==
    LET copied == CopyGame(m, game_ref)
    IN  [mem  |-> copied.mem,
         node |-> [game_state       |-> copied.ref,
                   move             |-> move,
                   parent           |-> parent,
                   player_who_moved |-> player_who_moved,
                   visits           |-> 0,
                   wins             |-> 0,
                   children         |-> <<>>,
                   untried_moves    |-> get_valid_moves(Deref(copied.mem, copied.ref))]]

get_next_player(node) ==
    IF node.player_who_moved = None THEN 1 ELSE 3 - node.player_who_moved

is_fully_expanded(node) == Len(node.untried_moves) = 0

is_terminal(m, node) == get_game_state(Deref(m, node.game_state)) # 0

(***************************************************************************)
(* ucb1_score is wins/visits + C*sqrt(ln(parent.visits)/visits), +inf for  *)
(* an unvisited child.  The model does not compute the real number: a      *)
(* child cannot have the highest score when a sibling has at least its win *)
(* rate with at most its visits, one of the two strictly, and every other  *)
(* child may be the one select_best_child returns.                         *)
(***************************************************************************)
Outscored(nodes, a, b) ==
    /\ nodes[b].wins * nodes[a].visits >= nodes[a].wins * nodes[b].visits
    /\ nodes[b].visits <= nodes[a].visits
    /\ \/ nodes[b].wins * nodes[a].visits > nodes[a].wins * nodes[b].visits
       \/ nodes[b].visits < nodes[a].visits

select_best_child(nodes, n) ==
    LET children  == SeqToSet(nodes[n].children)
        unvisited == {c \in children : nodes[c].visits = 0}
    IN  IF unvisited # {} THEN unvisited
        ELSE IF nodes[n].visits <= 1
        THEN {c \in children : \A d \in children :
                  nodes[d].wins * nodes[c].visits <= nodes[c].wins * nodes[d].visits}
        ELSE {c \in children : \A d \in children : ~Outscored(nodes, c, d)}

\* MCTSPlayer._select: the nodes the walk down from n may stop at.
RECURSIVE select(_, _, _)

\* _select returning the node it is given, without walking down.
select_stop_early(m, nodes, n) == {n}

select(m, nodes, n) ==
    IF ~is_terminal(m, nodes[n]) /\ is_fully_expanded(nodes[n])
    THEN IF nodes[n].children = <<>>
         THEN {n}
         ELSE UNION {select(m, nodes, c) : c \in select_best_child(nodes, n)}
    ELSE {n}

\* expand_node reading the last untried move without popping it.
expand_node_keep_untried(m, nodes, n) ==
    IF ~is_fully_expanded(nodes[n])
    THEN LET untried       == nodes[n].untried_moves
             move_to_try   == untried[Len(untried)]
             player        == get_next_player(nodes[n])
             current_state == CopyGame(m, nodes[n].game_state)
             moved         == Assign(current_state.mem, current_state.ref,
                                     simulate_move(Deref(current_state.mem,
                                                         current_state.ref),
                                                   move_to_try, player))
             child         == Node(moved, current_state.ref, move_to_try, n, player)
             index         == Len(nodes) + 1
             grown         == Append([nodes EXCEPT ![n].untried_moves = untried,
                                                   ![n].children = Append(@, index)],
                                      child.node)
         IN  [mem |-> Collect(child.mem, grown), nodes |-> grown, child |-> index]
    ELSE [mem |-> m, nodes |-> nodes, child |-> None]

\* Node.expand_node on node n: untried_moves.pop() takes the last move.
expand_node(m, nodes, n) ==
    IF ~is_fully_expanded(nodes[n])
    THEN LET untried       == nodes[n].untried_moves
             move_to_try   == untried[Len(untried)]
             player        == get_next_player(nodes[n])
             current_state == CopyGame(m, nodes[n].game_state)
             moved         == Assign(current_state.mem, current_state.ref,
                                     simulate_move(Deref(current_state.mem,
                                                         current_state.ref),
                                                   move_to_try, player))
             child         == Node(moved, current_state.ref, move_to_try, n, player)
             index         == Len(nodes) + 1
             grown         == Append([nodes EXCEPT ![n].untried_moves = Front(untried),
                                                   ![n].children = Append(@, index)],
                                      child.node)
         IN  [mem |-> Collect(child.mem, grown), nodes |-> grown, child |-> index]
    ELSE [mem |-> m, nodes |-> nodes, child |-> None]

\* The states a random playout may end in, player moving next.
RECURSIVE Playouts(_, _)

\* Playouts with the same player making every move.
Playouts_same_player(g, player) ==
    IF get_game_state(g) = 0 /\ Len(get_valid_moves(g)) > 0
    THEN UNION {Playouts(simulate_move(g, move_to_make, player), player) :
                    move_to_make \in SeqToSet(get_valid_moves(g))}
    ELSE {g}

Playouts(g, player) ==
    IF get_game_state(g) = 0 /\ Len(get_valid_moves(g)) > 0
    THEN UNION {Playouts(simulate_move(g, move_to_make, player), 3 - player) :
                    move_to_make \in SeqToSet(get_valid_moves(g))}
    ELSE {g}

RECURSIVE backpropagate(_, _, _)

\* backpropagate updating the node and its parent only, without the recursion.
backpropagate_to_parent(nodes, n, result) ==
    LET gain(k) == IF result = nodes[k].player_who_moved THEN 2
                   ELSE IF result = 3 THEN 1 ELSE 0
        updated == [nodes EXCEPT ![n].visits = @ + 1, ![n].wins = @ + gain(n)]
        parent  == nodes[n].parent
    IN  IF parent # None
        THEN [updated EXCEPT ![parent].visits = @ + 1, ![parent].wins = @ + gain(parent)]
        ELSE updated

\* backpropagate starting at the parent, the node itself left as it was.
backpropagate_skip_self(nodes, n, result) ==
    IF nodes[n].parent # None
    THEN LET parent  == nodes[n].parent
             gain    == IF result = nodes[parent].player_who_moved THEN 2
                        ELSE IF result = 3 THEN 1 ELSE 0
             updated == [nodes EXCEPT ![parent].visits = @ + 1,
                                      ![parent].wins = @ + gain]
         IN  IF nodes[parent].parent # None
             THEN backpropagate(updated, parent, result)
             ELSE updated
    ELSE nodes

\* backpropagate adding nothing for a draw.
backpropagate_no_draw(nodes, n, result) ==
    LET gain    == IF result = nodes[n].player_who_moved THEN 2 ELSE 0
        updated == [nodes EXCEPT ![n].visits = @ + 1, ![n].wins = @ + gain]
    IN  IF nodes[n].parent # None
        THEN backpropagate(updated, nodes[n].parent, result)
        ELSE updated

\* Node.backpropagate from node n up to the root.
backpropagate(nodes, n, result) ==
    LET gain    == IF result = nodes[n].player_who_moved THEN 2
                   ELSE IF result = 3 THEN 1 ELSE 0
        updated == [nodes EXCEPT ![n].visits = @ + 1, ![n].wins = @ + gain]
    IN  IF nodes[n].parent # None
        THEN backpropagate(updated, nodes[n].parent, result)
        ELSE updated

\* MostVisited taking the last child of the greatest count, as a loop with >=.
MostVisitedLast(nodes, children) ==
    children[CHOOSE i \in DOMAIN children :
                 /\ \A j \in DOMAIN children :
                        nodes[children[j]].visits <= nodes[children[i]].visits
                 /\ \A j \in (i + 1) .. Len(children) :
                        nodes[children[j]].visits < nodes[children[i]].visits]

\* MostVisited giving the position in children, not the child at it.
MostVisitedPosition(nodes, children) ==
    CHOOSE i \in DOMAIN children :
        /\ \A j \in DOMAIN children :
               nodes[children[j]].visits <= nodes[children[i]].visits
        /\ \A j \in 1 .. (i - 1) :
               nodes[children[j]].visits < nodes[children[i]].visits

\* max(root.children, key=visits): the first child of the greatest count.
MostVisited(nodes, children) ==
    children[CHOOSE i \in DOMAIN children :
                 /\ \A j \in DOMAIN children :
                        nodes[children[j]].visits <= nodes[children[i]].visits
                 /\ \A j \in 1 .. (i - 1) :
                        nodes[children[j]].visits < nodes[children[i]].visits]

(***************************************************************************)
(* SpecMcts: a caller sets up a position with simulate_move, then calls    *)
(* MCTSPlayer(simulations).get_move(game, player).  tree is [nodes, objs], *)
(* node 1 the root; call.i counts the finished iterations and call.at_root *)
(* those of them whose rollout started at the root; sim holds the node and *)
(* the result of the iteration under way.                                  *)
(***************************************************************************)
MctsDims == {<<2, 4>>}
MaxSimulations == 3

Root == 1

InitMcts == InitSetup(MctsDims)

Mem == Memory(game, tree.objs)

GetMove(simulations, player) ==
    /\ pc = "setup"
    /\ \E root \in {Node(Memory(game, <<>>), 0, None, None, 3 - player)} :
           /\ game' = root.mem.caller
           /\ tree' = [nodes |-> <<root.node>>, objs |-> root.mem.objs]
    /\ call' = [op |-> "get_move", simulations |-> simulations, player |-> player,
                i |-> 0, at_root |-> 0]
    /\ hist' = <<game>>
    /\ sim' = Idle
    /\ pc' = "loop"
    /\ UNCHANGED <<ret, stack>>

Select ==
    /\ pc = "loop"
    /\ call.i < call.simulations
    /\ \E node \in select(Mem, tree.nodes, Root) :
           sim' = [op |-> "select", node |-> node]
    /\ pc' = "expand"
    /\ UNCHANGED <<game, call, ret, stack, tree, hist>>

Expand ==
    /\ pc = "expand"
    /\ IF ~is_terminal(Mem, tree.nodes[sim.node])
       THEN \E grown \in {expand_node(Mem, tree.nodes, sim.node)} :
                /\ game' = grown.mem.caller
                /\ tree' = [nodes |-> grown.nodes, objs |-> grown.mem.objs]
                /\ sim' = [op |-> "expand",
                           node |-> IF grown.child # None THEN grown.child ELSE sim.node]
       ELSE /\ sim' = [op |-> "expand", node |-> sim.node]
            /\ UNCHANGED <<game, tree>>
    /\ pc' = "simulate"
    /\ UNCHANGED <<call, ret, stack, hist>>

Simulate ==
    /\ pc = "simulate"
    /\ \E current_state \in {CopyGame(Mem, tree.nodes[sim.node].game_state)} :
       \E final \in Playouts(Deref(current_state.mem, current_state.ref),
                             get_next_player(tree.nodes[sim.node])) :
       \E after \in {Collect(Assign(current_state.mem, current_state.ref, final),
                             tree.nodes)} :
           /\ game' = after.caller
           /\ tree' = [tree EXCEPT !.objs = after.objs]
           /\ sim' = [op |-> "simulate", node |-> sim.node,
                      result |-> get_game_state(final)]
    /\ pc' = "backpropagate"
    /\ UNCHANGED <<call, ret, stack, hist>>

Backpropagate ==
    /\ pc = "backpropagate"
    /\ tree' = [tree EXCEPT !.nodes = backpropagate(tree.nodes, sim.node, sim.result)]
    /\ call' = [call EXCEPT !.i = @ + 1,
                            !.at_root = IF sim.node = Root THEN @ + 1 ELSE @]
    /\ sim' = [op |-> "backpropagate", node |-> sim.node, result |-> sim.result]
    /\ pc' = "loop"
    /\ UNCHANGED <<game, ret, stack, hist>>

\* Return whose fallback for a root without children is always column 0.
ReturnDefault ==
    /\ pc = "loop"
    /\ call.i >= call.simulations
    /\ LET root == tree.nodes[Root]
       IN  IF root.children = <<>>
           THEN ret' = [op |-> "get_move", value |-> 0]
           ELSE ret' = [op |-> "get_move",
                        value |-> tree.nodes[MostVisited(tree.nodes, root.children)].move]
    /\ pc' = "done"
    /\ UNCHANGED <<game, call, stack, tree, sim, hist>>

Return ==
    /\ pc = "loop"
    /\ call.i >= call.simulations
    /\ LET root == tree.nodes[Root]
       IN  IF root.children = <<>>
           THEN LET valid_moves == get_valid_moves(Deref(Mem, root.game_state))
                IN  IF valid_moves # <<>>
                    THEN \E move \in SeqToSet(valid_moves) :
                             ret' = [op |-> "get_move", value |-> move]
                    ELSE ret' = [op |-> "get_move", value |-> 0]
           ELSE ret' = [op |-> "get_move",
                        value |-> tree.nodes[MostVisited(tree.nodes, root.children)].move]
    /\ pc' = "done"
    /\ UNCHANGED <<game, call, stack, tree, sim, hist>>

NextMcts ==
    \/ \E col \in Range(0, game.cols), player \in Players :
           SetupMove(col, player, game.rows * game.cols)
    \/ \E simulations \in 0 .. MaxSimulations, player \in Players :
           GetMove(simulations, player)
    \/ Select
    \/ Expand
    \/ Simulate
    \/ Backpropagate
    \/ Return

SpecMcts == InitMcts /\ [][NextMcts]_vars

\* The nodes of the tree and the game object a node stores.
Nodes == DOMAIN tree.nodes

NodeState(n) == Deref(Mem, tree.nodes[n].game_state)

InGetMove == call.op = "get_move"

\* C2 as stated: for every game state and every simulation budget, 0 included,
\* the column get_move returns is a member of get_valid_moves() of the state
\* at call time.
C2_MoveIsValidAnyState ==
    ret.op = "get_move" => ret.value \in SeqToSet(get_valid_moves(Asked))

\* C2 amended: for every game state that has a legal move and every simulation
\* budget, 0 included, the column get_move returns is a member of
\* get_valid_moves() of the state at call time; on a state with no legal move
\* it returns column 0.
C2_MoveIsValid ==
    ret.op = "get_move" =>
        IF get_valid_moves(Asked) # <<>>
        THEN ret.value \in SeqToSet(get_valid_moves(Asked))
        ELSE ret.value = 0

\* A search of three iterations from a position with a full column 0 and two
\* open columns: the root has children and the move returned is an open column.
C2_Witness ==
    /\ ret.op = "get_move"
    /\ call.simulations = 3
    /\ Len(get_valid_moves(Asked)) = 2
    /\ ~is_valid_location(Asked, 0)
    /\ tree.nodes[Root].children # <<>>
    /\ ret.value \in SeqToSet(get_valid_moves(Asked))

\* C6: during and after get_move the caller's game is what it was at the call;
\* every node stores a game object of its own, neither the caller's nor another
\* node's; the root's object equals the caller's game as it was copied, and
\* every other node's object equals its parent's object plus the one token of
\* its move, whatever expansions and rollouts happened since.
C6_NodesOwnSnapshots ==
    InGetMove =>
        /\ game = Asked
        /\ \A n \in Nodes :
               /\ tree.nodes[n].game_state # 0
               /\ \A o \in Nodes : o # n =>
                      tree.nodes[o].game_state # tree.nodes[n].game_state
        /\ NodeState(Root) = Asked
        /\ \A n \in Nodes \ {Root} :
               NodeState(n) = simulate_move(NodeState(tree.nodes[n].parent),
                                            tree.nodes[n].move,
                                            tree.nodes[n].player_who_moved)

\* After three iterations on a board with tokens on it the tree has a node
\* two moves below the root, expanded from a child after rollouts ran from
\* that child, and the last rollout ended in a win.
C6_Witness ==
    /\ InGetMove
    /\ pc = "done"
    /\ call.i = 3
    /\ TokenCount(Asked) >= 2
    /\ \E n \in Nodes : n # Root /\ tree.nodes[n].parent # Root
    /\ sim.result \in Players
    /\ game = Asked

\* Gravity: a cell is non-empty only if every cell below it in its column is.
Gravity(g) ==
    \A rc \in Cells(g) :
        g.board[rc[1]][rc[2]] # 0 =>
            \A r \in Range(rc[1] + 1, g.rows) : g.board[r][rc[2]] # 0

\* C11: on every board reached from the empty board by simulate_move calls on
\* non-full columns, interleaved with undo_move calls in LIFO order, a cell is
\* non-empty only if every cell below it in the same column is non-empty.
C11_GravityHolds == pc = "moves" => Gravity(game)

\* Two tokens stacked in one column and a third move just undone, the move
\* below it still pending.
C11_Witness ==
    /\ pc = "moves"
    /\ ret.op = "undo_move"
    /\ Len(stack) = 1
    /\ TokenCount(game) = 2
    /\ \E c \in Range(0, game.cols) :
           game.board[game.rows - 1][c] # 0 /\ game.board[game.rows - 2][c] # 0

\* The empty cell of column col with the greatest row index.
LowestEmpty(g, col) ==
    CHOOSE r \in Range(0, g.rows) :
        /\ g.board[r][col] = 0
        /\ \A q \in Range(r + 1, g.rows) : g.board[q][col] # 0

\* C12: simulate_move(c, p) on a column with an empty cell writes p into the
\* empty cell of column c with the greatest row index, returns that (row, c),
\* and leaves every other cell and current_player unchanged.
C12_SimulateWritesLowestEmpty ==
    [][call'.op = "simulate_move" =>
         LET row == LowestEmpty(game, call'.col)
         IN  /\ ret'.info = <<row, call'.col>>
             /\ game'.board[row][call'.col] = call'.player
             /\ \A rc \in Cells(game) :
                    rc # <<row, call'.col>> =>
                        game'.board[rc[1]][rc[2]] = game.board[rc[1]][rc[2]]
             /\ game'.current_player = game.current_player
             /\ game'.rows = game.rows /\ game'.cols = game.cols]_vars

\* Player 2's token has landed on the bottom row of a column that held one
\* token hanging in row 1, the cell between them empty.
C12_Witness ==
    /\ call.op = "simulate_move"
    /\ call.player = 2
    /\ ret.op = "simulate_move"
    /\ ret.info = <<3, call.col>>
    /\ game.board[3][call.col] = 2
    /\ game.board[2][call.col] = 0
    /\ game.board[1][call.col] # 0

(***************************************************************************)
(* SpecFull: a caller sets up a position, then calls simulate_move on a    *)
(* column with no empty cell.  get_next_open_row returns None and the      *)
(* assignment board[None][col] = player either raises IndexError (col not  *)
(* 0) or assigns every cell (col 0).  hist keeps the game before the call. *)
(***************************************************************************)
FullDims == {<<2, 3>>}

InitFull == InitSetup(FullDims)

SimulateMoveFull(col, player) ==
    /\ pc = "setup"
    /\ get_next_open_row(game, col) = None
    /\ IF SetCellRaises(game, get_next_open_row(game, col), col)
       THEN /\ game' = game
            /\ ret' = [op |-> "simulate_move", raised |-> TRUE]
       ELSE /\ game' = simulate_move(game, col, player)
            /\ ret' = [op |-> "simulate_move", raised |-> FALSE]
    /\ call' = [op |-> "simulate_move", col |-> col, player |-> player]
    /\ hist' = <<game>>
    /\ pc' = "done"
    /\ UNCHANGED <<stack, tree, sim>>

NextFull ==
    \/ \E col \in Range(0, game.cols), player \in Players :
           SetupMove(col, player, game.rows * game.cols)
    \/ \E col \in Range(0, game.cols), player \in Players :
           SimulateMoveFull(col, player)

SpecFull == InitFull /\ [][NextFull]_vars

\* C13: simulate_move(c, p) on a full column fails with an error for every
\* column index c and leaves every cell of the board unchanged.
C13_FullColumnFails ==
    (pc = "done" /\ call.op = "simulate_move") =>
        /\ ret.raised
        /\ game.board = Asked.board

\* C14: get_valid_moves() returns exactly the columns whose top cell is empty,
\* each once, in strictly ascending order; on a board that satisfies the
\* gravity invariant these are the columns with at least one empty cell.
C14_ValidMovesAreOpenColumns ==
    pc = "board" =>
        LET valid_moves == get_valid_moves(game)
        IN  /\ \A i \in DOMAIN valid_moves : \A j \in DOMAIN valid_moves :
                   i < j => valid_moves[i] < valid_moves[j]
            /\ SeqToSet(valid_moves) = {c \in Range(0, game.cols) : game.board[0][c] = 0}
            /\ Gravity(game) =>
                   SeqToSet(valid_moves) =
                       {c \in Range(0, game.cols) :
                            \E r \in Range(0, game.rows) : game.board[r][c] = 0}

\* A board that satisfies gravity with column 1 full: the legal columns are
\* 0, 2 and 3 in that order.
C14_Witness ==
    /\ pc = "board"
    /\ Gravity(game)
    /\ \A r \in Range(0, game.rows) : game.board[r][1] # 0
    /\ get_valid_moves(game) = <<0, 2, 3>>

\* The sum of the visits of the nodes listed in children.
RECURSIVE SumVisits(_, _)
SumVisits(nodes, children) ==
    IF children = <<>> THEN 0
    ELSE nodes[children[1]].visits + SumVisits(nodes, Tail(children))

\* C15: after k iterations of get_move the root's visits equals k, and the sum
\* of the visits of the root's children equals k minus the number of
\* iterations whose rollout started at the root: k when the root state is not
\* terminal, 0 when it is.
C15_RootVisitsCountIterations ==
    (InGetMove /\ pc \in {"loop", "done"}) =>
        LET root == tree.nodes[Root]
            sum  == SumVisits(tree.nodes, root.children)
        IN  /\ call.i <= call.simulations
            /\ root.visits = call.i
            /\ sum = call.i - call.at_root
            /\ sum = IF is_terminal(Mem, root) THEN 0 ELSE call.i

\* Three iterations from a position that is not terminal: the last rollout
\* started two moves below the root and the root has been visited 3 times.
C15_Witness ==
    /\ InGetMove /\ pc = "done"
    /\ call.i = 3
    /\ ~is_terminal(Mem, tree.nodes[Root])
    /\ sim.node # Root /\ tree.nodes[sim.node].parent # Root
    /\ tree.nodes[Root].visits = 3

\* The root's children whose visit count is the greatest among them.
TopChildren ==
    LET children == SeqToSet(tree.nodes[Root].children)
    IN  {c \in children : \A d \in children : tree.nodes[d].visits <= tree.nodes[c].visits}

\* The one of them that was expanded first: nodes are numbered as created.
TopChildren_First == CHOOSE c \in TopChildren : \A d \in TopChildren : c <= d

ReturnedWithChildren == ret.op = "get_move" /\ tree.nodes[Root].children # <<>>

C17_FallbackWithoutChildren ==
    (ret.op = "get_move" /\ tree.nodes[Root].children = <<>>) =>
        /\ call.simulations = 0 \/ is_terminal(Mem, tree.nodes[Root])
        /\ IF get_valid_moves(Asked) # <<>>
           THEN ret.value \in SeqToSet(get_valid_moves(Asked))
           ELSE ret.value = 0

\* Three iterations on a won position with column 0 full and other columns
\* open: every rollout started at the root, which has no child, and the move
\* returned is an open column.
C17_Witness ==
    /\ ret.op = "get_move"
    /\ call.simulations = 3 /\ call.at_root = 3
    /\ tree.nodes[Root].children = <<>>
    /\ get_game_state(Asked) \in Players
    /\ ~is_valid_location(Asked, 0)
    /\ ret.value \in SeqToSet(get_valid_moves(Asked))

(***************************************************************************)
(* SpecDepth: a caller sets up a position, then asks a MinimaxPlayer       *)
(* configured with a depth of 0 or below for a move.  The board is small   *)
(* enough for a search that no depth cutoff stops to reach the end of      *)
(* every game.                                                             *)
(***************************************************************************)
DepthDims == {<<2, 4>>}
MaxBelowZero == 1

InitDepth == InitSetup(DepthDims)

NextDepth ==
    \/ \E col \in Range(0, game.cols), player \in Players :
           SetupMove(col, player, game.rows * game.cols)
    \/ \E below \in 0 .. MaxBelowZero, use_alpha_beta \in BOOLEAN, player \in Players :
           GetBestMove(0 - below, use_alpha_beta, player)

SpecDepth == InitDepth /\ [][NextDepth]_vars

\* C18: for every configured depth <= 0 the root call applies no move to the
\* board and returns (evaluate_position(state, player), None).
C18_NoLookaheadAtOrBelowZero ==
    (ret.op = "get_best_move" /\ call.depth <= 0) =>
        /\ ret.applied = 0
        /\ ret.value = None
        /\ ret.score = evaluate_position(Asked, call.player)
        /\ game = Asked

(***************************************************************************)
(* SpecGuided: the game loop of test_mcts_vs_random on the default 6x7     *)
(* board, the two movers choosing only columns where their token lands on  *)
(* a cell that LineOfPlay gives them (rows from the top, 0 an empty cell). *)
(***************************************************************************)
GuidedDims == {<<6, 7>>}

LineOfPlay ==
    << <<0, 1, 0, 0, 0, 0, 0>>,
       <<1, 1, 1, 0, 1, 0, 1>>,
       <<1, 1, 1, 0, 1, 1, 1>>,
       <<1, 2, 2, 1, 2, 2, 1>>,
       <<2, 2, 2, 1, 2, 2, 2>>,
       <<2, 2, 2, 1, 2, 2, 2>> >>

InitGuided ==
    /\ \E d \in GuidedDims : game = Connect4(d[1], d[2])
    /\ pc = "play"
    /\ call = [op |-> "play", current_player |-> 1]
    /\ ret = Idle
    /\ stack = <<>>
    /\ tree = <<>>
    /\ sim = Idle
    /\ hist = <<>>

GuidedTurn(move) ==
    /\ is_valid_location(game, move)
    /\ LineOfPlay[get_next_open_row(game, move) + 1][move + 1] = call.current_player
    /\ PlayTurn(move)

NextGuided == \E move \in Range(0, game.cols) : GuidedTurn(move)

SpecGuided == InitGuided /\ [][NextGuided]_vars

\* C19: on every non-terminal board reached by legal alternating play, for
\* either perspective player, evaluate_position is strictly between -1000 and
\* +1000.
C19_HeuristicBelowTerminalScore ==
    (pc = "play" /\ get_game_state(game) = 0) =>
        \A player \in Players :
            /\ evaluate_position(game, player) > -1000
            /\ evaluate_position(game, player) < 1000

\* ---- Queries of the game state between arbitrary board edits ----

QueryDims == {<<4, 4>>}
MaxQueryTokens == 4

InitQuery ==
    /\ \E d \in QueryDims : game = Connect4(d[1], d[2])
    /\ pc = "query"
    /\ call = Idle
    /\ ret = Idle
    /\ stack = <<>>
    /\ tree = <<>>
    /\ sim = Idle
    /\ hist = <<>>

\* drop_piece on an empty cell, the cells taken in any order.
PlaceToken(row, col) ==
    /\ pc = "query"
    /\ TokenCount(game) < MaxQueryTokens
    /\ game.board[row][col] = 0
    /\ game' = drop_piece(game, row, col)
    /\ ret' = [op |-> "drop_piece"]
    /\ hist' = <<>>
    /\ UNCHANGED <<pc, call, stack, tree, sim>>

PassTurn ==
    /\ pc = "query"
    /\ game' = switch_player(game)
    /\ ret' = [op |-> "switch_player"]
    /\ hist' = <<>>
    /\ UNCHANGED <<pc, call, stack, tree, sim>>

\* A call of get_game_state: the method assigns to no attribute, and its
\* result is recorded together with the result of the call just before it
\* when that was a call of get_game_state too.
GetGameState ==
    /\ pc = "query"
    /\ game' = game
    /\ ret' = [op |-> "get_game_state",
               value |-> get_game_state(game),
               previous |-> IF ret.op = "get_game_state" THEN ret.value ELSE None]
    /\ hist' = <<game>>
    /\ UNCHANGED <<pc, call, stack, tree, sim>>

NextQuery ==
    \/ \E rc \in Cells(game) : PlaceToken(rc[1], rc[2])
    \/ PassTurn
    \/ GetGameState

SpecQuery == InitQuery /\ [][NextQuery]_vars

\* The object holding the same cells as g, freshly constructed and filled in
\* row-major order.
SameCells(g) == [Connect4(g.rows, g.cols) EXCEPT !.board = g.board]

OtherSearch ==
    get_best_move([depth |-> call.depth, use_alpha_beta |-> ~call.use_alpha_beta],
                  Asked, call.player)

\* C21: for every non-terminal state, player and depth >= 1, minimax_ab called
\* at the root with alpha = -inf and beta = +inf returns the same score and the
\* same best column as minimax_basic at the same depth.
C21_PruningKeepsDecision ==
    (pc = "done" /\ call.op = "get_best_move" /\ call.depth >= 1
        /\ get_game_state(Asked) = 0) =>
        /\ ret.value = OtherSearch.col
        /\ ret.score = OtherSearch.score

C21_Witness ==
    /\ pc = "done"
    /\ call.op = "get_best_move"
    /\ call.use_alpha_beta
    /\ call.depth = MaxDepth
    /\ get_game_state(Asked) = 0
    /\ ret.applied < OtherSearch.env.applied
    /\ ret.value = OtherSearch.col
    /\ ret.value # 0

(***************************************************************************)
(* SpecDriver: the pygame front end (game.py).  call holds the fields of   *)
(* the GameInterface object, game its Connect4 object.  One action per     *)
(* event the run loop handles and one for the engine move at the end of an *)
(* iteration.  An engine's answer is any column its search can return: a   *)
(* legal column on a board with a legal move, None from the minimax search *)
(* on a finished board, column 0 from the tree search on a full board.     *)
(***************************************************************************)
DriverDims == {<<5, 4>>}
MaxDriverPlies == 11
MaxKeyTokens == 1

Human == [kind |-> "human", level |-> 0]
NoPlayer == [kind |-> "none", level |-> 0]
MinimaxPlayer(depth) == [kind |-> "minimax", level |-> depth]
MCTSPlayer(simulations) == [kind |-> "mcts", level |-> simulations]

GameInterface ==
    [in_menu |-> TRUE, game_over |-> FALSE, turn |-> 0,
     player1 |-> NoPlayer, player2 |-> NoPlayer]

Driver(g, self) == [game |-> g, self |-> self]

setup_players(self, g, mode) ==
    LET player1 == CASE mode = 1 -> Human
                     [] mode = 2 -> Human
                     [] mode = 3 -> Human
                     [] mode = 4 -> MinimaxPlayer(4)
                     [] mode = 5 -> MCTSPlayer(800)
                     [] OTHER -> self.player1
        player2 == CASE mode = 1 -> Human
                     [] mode = 2 -> MinimaxPlayer(5)
                     [] mode = 3 -> MCTSPlayer(1000)
                     [] mode = 4 -> MCTSPlayer(800)
                     [] mode = 5 -> MinimaxPlayer(4)
                     [] OTHER -> self.player2
    IN  Driver(Connect4(g.rows, g.cols),
               [in_menu |-> FALSE, game_over |-> FALSE, turn |-> 0,
                player1 |-> player1, player2 |-> player2])

current_player_obj(self, g) ==
    IF g.current_player = 1 THEN self.player1 ELSE self.player2

is_human_turn(self, g) == current_player_obj(self, g).kind = "human"

\* make_move passing the turn when the column is full.
make_move_pass_when_full(self, g, col) ==
    IF is_valid_location(g, col)
    THEN LET row     == get_next_open_row(g, col)
             dropped == drop_piece(g, row, col)
         IN  IF is_winning_move(dropped, row, col)
             THEN Driver(dropped, [self EXCEPT !.game_over = TRUE])
             ELSE IF Len(get_valid_moves(dropped)) = 0
             THEN Driver(dropped, [self EXCEPT !.game_over = TRUE])
             ELSE Driver(switch_player(dropped), [self EXCEPT !.turn = @ + 1])
    ELSE Driver(switch_player(g), [self EXCEPT !.turn = @ + 1])

make_move(self, g, col) ==
    IF is_valid_location(g, col)
    THEN LET row     == get_next_open_row(g, col)
             dropped == drop_piece(g, row, col)
         IN  IF is_winning_move(dropped, row, col)
             THEN Driver(dropped, [self EXCEPT !.game_over = TRUE])
             ELSE IF Len(get_valid_moves(dropped)) = 0
             THEN Driver(dropped, [self EXCEPT !.game_over = TRUE])
             ELSE Driver(switch_player(dropped), [self EXCEPT !.turn = @ + 1])
    ELSE Driver(g, self)

\* The columns the engine's get_move / get_best_move can return on g.
EngineMoves(engine, g) ==
    LET valid_moves == get_valid_moves(g)
    IN  IF engine.kind = "minimax"
        THEN IF get_game_state(g) # 0 \/ valid_moves = <<>>
             THEN {None}
             ELSE SeqToSet(valid_moves)
        ELSE IF valid_moves = <<>> THEN {0} ELSE SeqToSet(valid_moves)

ai_move(self, g, col) ==
    IF col # None THEN make_move(self, g, col) ELSE Driver(g, self)

InitDriver ==
    /\ \E d \in DriverDims : game = Connect4(d[1], d[2])
    /\ pc = "run"
    /\ call = GameInterface
    /\ ret = Idle
    /\ stack = <<>>
    /\ tree = <<>>
    /\ sim = Idle
    /\ hist = <<>>

\* KEYDOWN of 1..5 in the menu.
KeyMode(mode) ==
    /\ pc = "run"
    /\ call.in_menu
    /\ LET next == setup_players(call, game, mode)
       IN  game' = next.game /\ call' = next.self
    /\ ret' = [op |-> "setup_players"]
    /\ UNCHANGED <<pc, stack, tree, sim, hist>>

\* KEYDOWN of R during a game.
KeyR ==
    /\ pc = "run"
    /\ ~call.in_menu
    /\ TokenCount(game) <= MaxKeyTokens
    /\ LET next == setup_players(call, game, 1)
       IN  game' = next.game /\ call' = next.self
    /\ ret' = [op |-> "restart", player1 |-> call.player1, player2 |-> call.player2]
    /\ UNCHANGED <<pc, stack, tree, sim, hist>>

\* KEYDOWN of ESC: back to the menu during a game, out of the loop in the menu.
KeyEscape ==
    /\ pc = "run"
    /\ TokenCount(game) <= MaxKeyTokens
    /\ IF call.in_menu
       THEN pc' = "quit" /\ UNCHANGED call
       ELSE call' = [call EXCEPT !.in_menu = TRUE] /\ UNCHANGED pc
    /\ ret' = [op |-> "escape"]
    /\ UNCHANGED <<game, stack, tree, sim, hist>>

\* The QUIT event.
Quit ==
    /\ pc = "run"
    /\ TokenCount(game) <= MaxKeyTokens
    /\ pc' = "quit"
    /\ ret' = [op |-> "quit"]
    /\ UNCHANGED <<game, call, stack, tree, sim, hist>>

\* MOUSEBUTTONDOWN over column col.
Click(col) ==
    /\ pc = "run"
    /\ ~call.in_menu /\ ~call.game_over /\ is_human_turn(call, game)
    /\ TokenCount(game) < MaxDriverPlies
    /\ LET next == make_move(call, game, col)
       IN  game' = next.game /\ call' = next.self
    /\ ret' = [op |-> "make_move", state |-> get_game_state(game),
               applied |-> is_valid_location(game, col)]
    /\ UNCHANGED <<pc, stack, tree, sim, hist>>

\* The engine move at the end of an iteration of the run loop.
AiMove ==
    /\ pc = "run"
    /\ ~call.in_menu /\ ~call.game_over /\ ~is_human_turn(call, game)
    /\ TokenCount(game) < MaxDriverPlies
    /\ \E col \in EngineMoves(current_player_obj(call, game), game) :
           /\ LET next == ai_move(call, game, col)
              IN  game' = next.game /\ call' = next.self
           /\ ret' = [op |-> "ai_move", state |-> get_game_state(game),
                      applied |-> col # None /\ is_valid_location(game, col)]
    /\ UNCHANGED <<pc, stack, tree, sim, hist>>

NextDriver ==
    \/ \E mode \in 1 .. 5 : KeyMode(mode)
    \/ KeyR
    \/ KeyEscape
    \/ Quit
    \/ \E col \in Range(0, game.cols) : Click(col)
    \/ AiMove

SpecDriver == InitDriver /\ [][NextDriver]_vars

\* C22: whenever the driver asks an engine for a move, get_game_state() of the
\* driver's game is 0.
C22_EngineAskedOnlyWhileOngoing ==
    (pc = "run" /\ ret.op = "ai_move") => ret.state = 0

\* The value of the subtree under column col of the layer searched on g.
SubtreeValue(g, depth, maximizing_player, player, col) ==
    minimax_basic(Apply(Env(g), col, IF maximizing_player THEN player ELSE 3 - player),
                  depth - 1, ~maximizing_player, player).score

\* The columns of g whose subtree value is the best of the layer.
BestColumns(g, depth, maximizing_player, player) ==
    LET cols == SeqToSet(get_valid_moves(g))
        value == [col \in cols |->
                      SubtreeValue(g, depth, maximizing_player, player, col)]
    IN  {col \in cols : \A other \in cols :
             IF maximizing_player THEN value[col] >= value[other]
                                  ELSE value[col] <= value[other]}

LayerAsked ==
    /\ pc = "done"
    /\ call.op = "get_best_move"
    /\ ~call.use_alpha_beta
    /\ call.depth >= 1
    /\ get_game_state(Asked) = 0
    /\ get_valid_moves(Asked) # <<>>

\* C23: a maximizing layer of minimax_basic returns the lowest-index legal
\* column whose subtree value is the maximum over the legal columns, a
\* minimizing layer the lowest-index legal column attaining the minimum.
C23_FirstBestColumnWins ==
    LayerAsked =>
        LET highest == BestColumns(Asked, call.depth, TRUE, call.player)
            lowest  == BestColumns(Asked, call.depth, FALSE, call.player)
            res     == minimax_basic(Env(Asked), call.depth, FALSE, call.player)
        IN  /\ ret.value \in highest
            /\ \A col \in highest : ret.value <= col
            /\ ret.score = SubtreeValue(Asked, call.depth, TRUE, call.player, ret.value)
            /\ res.col \in lowest
            /\ \A col \in lowest : res.col <= col
            /\ res.score = SubtreeValue(Asked, call.depth, FALSE, call.player, res.col)

\* A tie between the returned column and a later one, the returned column not
\* being the first legal column.
C23_Witness ==
    /\ LayerAsked
    /\ call.depth = MaxDepth
    /\ ret.value # get_valid_moves(Asked)[1]
    /\ \E col \in BestColumns(Asked, call.depth, TRUE, call.player) : col > ret.value

\* The node n and its ancestors up to the root.
RECURSIVE PathToRoot(_, _)
PathToRoot(nodes, n) ==
    IF nodes[n].parent = None THEN {n}
    ELSE {n} \cup PathToRoot(nodes, nodes[n].parent)

\* C24: backpropagate(result) on a node adds 1 to visits on that node and on
\* each of its ancestors up to the root and changes no other node; on each node
\* of that path wins grows by 1 (two halves) iff result is the node's
\* player_who_moved, by one half iff result is a draw (3), by 0 otherwise.
C24_BackpropagateUpdatesPath ==
    [][pc = "backpropagate" =>
           LET nodes == tree.nodes
               path  == PathToRoot(nodes, sim.node)
           IN  /\ DOMAIN tree'.nodes = DOMAIN nodes
               /\ \A k \in DOMAIN nodes :
                      tree'.nodes[k] =
                          IF k \in path
                          THEN [nodes[k] EXCEPT
                                   !.visits = @ + 1,
                                   !.wins = @ + (IF sim.result = nodes[k].player_who_moved
                                                 THEN 2
                                                 ELSE IF sim.result = 3 THEN 1 ELSE 0)]
                          ELSE nodes[k]]_vars

\* A drawn rollout from a grandchild of the root has been propagated while the
\* root has another child off the path.
C24_Witness ==
    /\ pc = "loop"
    /\ sim.op = "backpropagate"
    /\ sim.result = 3
    /\ Cardinality(PathToRoot(tree.nodes, sim.node)) = 3
    /\ Len(tree.nodes) > 3
    /\ \A k \in PathToRoot(tree.nodes, sim.node) : tree.nodes[k].wins > 0

\* The moves of the children of node n, in the order of children.
ChildMoves(n) == [i \in DOMAIN tree.nodes[n].children |->
                      tree.nodes[tree.nodes[n].children[i]].move]

\* Children and untried moves of every node account for each legal column of
\* the node's state once, and every child is its parent's state plus one token
\* of the parent's next player in the child's column.
ExpansionInvariant ==
    \A n \in Nodes :
        LET node  == tree.nodes[n]
            moves == ChildMoves(n) \o node.untried_moves
        IN  /\ SeqToSet(moves) = SeqToSet(get_valid_moves(NodeState(n)))
            /\ Len(moves) = Len(get_valid_moves(NodeState(n)))
            /\ \A i \in DOMAIN node.children :
                   LET child == tree.nodes[node.children[i]]
                   IN  /\ child.parent = n
                       /\ child.player_who_moved = get_next_player(node)
                       /\ Deref(Mem, child.game_state) =
                              simulate_move(NodeState(n), child.move, get_next_player(node))
            /\ is_fully_expanded(node) =>
                   expand_node(Mem, tree.nodes, n) =
                       [mem |-> Mem, nodes |-> tree.nodes, child |-> None]

\* One call of expand_node on the node selected: one untried move less and one
\* child more, nothing else changed; on a fully expanded node no change at all.
ExpandStep ==
    LET n     == sim.node
        nodes == tree.nodes
        index == Len(nodes) + 1
    IN  IF is_fully_expanded(nodes[n])
        THEN tree'.nodes = nodes /\ sim'.node = n
        ELSE /\ Len(tree'.nodes) = index
             /\ sim'.node = index
             /\ \A k \in DOMAIN nodes : k # n => tree'.nodes[k] = nodes[k]
             /\ tree'.nodes[n] =
                    [nodes[n] EXCEPT !.untried_moves = Front(@),
                                     !.children = Append(@, index)]
             /\ tree'.nodes[index].parent = n
             /\ tree'.nodes[index].children = <<>>
             /\ tree'.nodes[index].move = Last(nodes[n].untried_moves)
             /\ Deref(Mem', tree'.nodes[index].game_state) =
                    simulate_move(NodeState(n), tree'.nodes[index].move,
                                  get_next_player(nodes[n]))

\* C25: at every time the moves of a node's children together with its
\* untried_moves are exactly the legal columns of the node's state, none twice;
\* a successful expand_node removes one untried move and adds one child whose
\* parent is the node and whose state is the node's state plus one token of the
\* node's next player in that column; on a fully expanded node expand_node
\* returns None and changes nothing.
C25_ExpansionKeepsMovesPartitioned ==
    [][/\ InGetMove' => ExpansionInvariant'
       /\ (pc = "expand" /\ ~is_terminal(Mem, tree.nodes[sim.node])) => ExpandStep]_vars

C25_Witness ==
    /\ InGetMove
    /\ sim.op = "expand"
    /\ Len(tree.nodes) = MaxSimulations + 1
    /\ sim.node = Len(tree.nodes)
    /\ tree.nodes[sim.node].parent # Root
    /\ is_fully_expanded(tree.nodes[tree.nodes[sim.node].parent])
    /\ Len(tree.nodes[Root].children) > 1

\* The number of cells of g holding player (0 for the empty cells).
CountOf(g, player) == Cardinality({rc \in Cells(g) : g.board[rc[1]][rc[2]] = player})

\* final is start after k more tokens, put down alternately from player on, and
\* the game is over in final.
RolloutOf(start, player, final) ==
    LET k == TokenCount(final) - TokenCount(start)
    IN  /\ get_game_state(final) \in {1, 2, 3}
        /\ k >= 0
        /\ k <= CountOf(start, 0)
        /\ \A rc \in Cells(start) :
               start.board[rc[1]][rc[2]] # 0 =>
                   final.board[rc[1]][rc[2]] = start.board[rc[1]][rc[2]]
        /\ CountOf(final, player) - CountOf(start, player) = (k + 1) \div 2
        /\ CountOf(final, 3 - player) - CountOf(start, 3 - player) = k \div 2

\* C26: Node.simulate() from any node ends after at most as many moves as the
\* node's state has empty cells, the movers alternating from the node's next
\* player, and returns 1, 2 or 3, never 0.
C26_RolloutEndsDecided ==
    /\ (InGetMove /\ pc = "simulate") =>
           \A final \in Playouts(NodeState(sim.node), get_next_player(tree.nodes[sim.node])) :
               RolloutOf(NodeState(sim.node), get_next_player(tree.nodes[sim.node]), final)
    /\ (InGetMove /\ sim.op \in {"simulate", "backpropagate"}) => sim.result \in {1, 2, 3}

C26_Witness ==
    /\ InGetMove
    /\ sim.op = "simulate"
    /\ sim.result = 1
    /\ get_game_state(NodeState(sim.node)) = 0
    /\ TokenCount(NodeState(sim.node)) <= 2

\* C27: in get_move selection stops only at a node that is terminal or still
\* has untried moves, each iteration adds at most one node to the tree, and a
\* node whose state is terminal never has children, untried moves or not.
C27_SelectionAndGrowth ==
    InGetMove =>
        /\ sim.op = "select" =>
               \/ is_terminal(Mem, tree.nodes[sim.node])
               \/ ~is_fully_expanded(tree.nodes[sim.node])
        /\ Len(tree.nodes) <= 1 + call.i
                                + (IF pc \in {"simulate", "backpropagate"} THEN 1 ELSE 0)
        /\ \A n \in Nodes :
               is_terminal(Mem, tree.nodes[n]) => tree.nodes[n].children = <<>>

\* Selection has walked down to a finished child that still has untried moves.
C27_Witness ==
    /\ InGetMove
    /\ sim.op = "select"
    /\ sim.node # Root
    /\ is_terminal(Mem, tree.nodes[sim.node])
    /\ ~is_fully_expanded(tree.nodes[sim.node])
    /\ tree.nodes[sim.node].children = <<>>
    /\ tree.nodes[sim.node].visits >= 1

\* The sum of the visits of the children of node n.
ChildVisits(n) == SumVisits(tree.nodes, tree.nodes[n].children)

\* C28: between iterations of get_move every non-root node has visits >= 1,
\* every non-root node with a non-terminal state has visits = 1 + the sum of
\* its children's visits, and 0 <= wins <= visits on every node (wins counted in
\* halves); so wherever select_best_child computes UCB1 every child has
\* visits > 0 and the parent visits >= 1.
C28_VisitCountsConsistent ==
    (InGetMove /\ pc = "loop") =>
        \A n \in Nodes :
            LET node == tree.nodes[n]
            IN  /\ n # Root => node.visits >= 1
                /\ (n # Root /\ ~is_terminal(Mem, node)) =>
                       node.visits = 1 + ChildVisits(n)
                /\ 0 <= node.wins /\ node.wins <= 2 * node.visits
                /\ (~is_terminal(Mem, node) /\ is_fully_expanded(node)) =>
                       /\ node.visits >= 1
                       /\ \A c \in SeqToSet(node.children) : tree.nodes[c].visits > 0

C28_Witness ==
    /\ InGetMove
    /\ pc = "loop"
    /\ call.i = MaxSimulations
    /\ ~is_terminal(Mem, tree.nodes[Root])
    /\ is_fully_expanded(tree.nodes[Root])
    /\ \E n \in Nodes :
           /\ n # Root
           /\ ~is_terminal(Mem, tree.nodes[n])
           /\ tree.nodes[n].visits = 2
           /\ tree.nodes[n].children # <<>>
           /\ tree.nodes[n].wins = 3

(***************************************************************************)
(* SpecEngines: the run loop in the engine-vs-engine modes 4 and 5 with no *)
(* QUIT, ESC or R event: after setup_players every iteration of the loop   *)
(* calls ai_move while the game is on.                                     *)
(***************************************************************************)
EngineModes == {4, 5}

NextEngines ==
    \/ \E mode \in EngineModes : KeyMode(mode)
    \/ AiMove

SpecEngines == InitDriver /\ [][NextEngines]_vars

\* C29: in modes 4 and 5, once setup_players has run, the loop never stays with
\* game_over False and no move being applied: while the game is on, whatever
\* column the engine to move answers is applied by ai_move, so that each
\* iteration adds a token until game_over is True.
C29_LoopNeverStuck ==
    (pc = "run" /\ ~call.in_menu /\ ~call.game_over) =>
        \A col \in EngineMoves(current_player_obj(call, game), game) :
            ai_move(call, game, col) # Driver(game, call)

\* C30: on every board get_game_state() = 0 implies that get_valid_moves() is
\* not empty; a board without a legal move is one the terminal test of the
\* search has already cut off.
C30_OngoingHasLegalMove ==
    pc = "board" =>
        /\ get_game_state(game) = 0 => get_valid_moves(game) # <<>>
        /\ get_valid_moves(game) = <<>> => get_game_state(game) \in {1, 2, 3}
        /\ get_valid_moves(game) = <<>> =>
               \A player \in Players, maximizing_player \in BOOLEAN :
                   minimax_basic(Env(game), 1, maximizing_player, player) =
                       Result(evaluate_position(game, player), None, Env(game))

\* The top row is full with tokens of both players and nobody has four.
C30_Witness ==
    /\ pc = "board"
    /\ get_valid_moves(game) = <<>>
    /\ get_game_state(game) = 3
    /\ ~HasFour(game, 1) /\ ~HasFour(game, 2)

\* C31: in every state the driver reaches through make_move from a freshly
\* set-up game, player 1 moved first and player 1 has as many tokens as player 2
\* or one more; while game_over is False current_player is 1 exactly when the
\* two counts are equal; make_move on a full column changes neither the board
\* nor current_player.
C31_TurnsAlternate ==
    LET ones == Cardinality({rc \in Cells(game) : game.board[rc[1]][rc[2]] = 1})
        twos == Cardinality({rc \in Cells(game) : game.board[rc[1]][rc[2]] = 2})
    IN  /\ ones - twos \in {0, 1}
        /\ ~call.game_over => (game.current_player = 1 <=> ones = twos)
        /\ \A col \in Range(0, game.cols) :
               ~is_valid_location(game, col) =>
                   make_move(call, game, col) = Driver(game, call)

\* A click on a full column has just been ignored in a game that is still on.
C31_Witness ==
    /\ pc = "run"
    /\ ret.op = "make_move"
    /\ ~ret.applied
    /\ ~call.in_menu /\ ~call.game_over
    /\ game.current_player = 2
    /\ \E col \in Range(0, game.cols) : ~is_valid_location(game, col)

\* C32: pressing R during a game restarts it with the same mode: the board is
\* empty, game_over is False and current_player is 1, and player1 and player2
\* are the ones of the game that was in progress.
C32_RestartKeepsMode ==
    (pc = "run" /\ ret.op = "restart") =>
        /\ game = Connect4(game.rows, game.cols)
        /\ ~call.game_over
        /\ ~call.in_menu
        /\ call.player1 = ret.player1
        /\ call.player2 = ret.player2

====
